---------------------------- MODULE Spec2Model ----------------------------
(***************************************************************************)
(* A model of goframe: the client's sync engine (src/photo_sync.go,        *)
(* PhotoSync) and the server's content-addressed store                     *)
(* (src/server/main.go, PhotoStorage).                                     *)
(*                                                                         *)
(* A file's content is a sequence of chunks; the stream of photo d is      *)
(* Content(d).  A file name is the pair <<stem, extension>>, so            *)
(* filepath.Ext is the second component.  A directory is a function from   *)
(* the names present in it to their contents.  Durations are in minutes.   *)
(***************************************************************************)
EXTENDS Integers, Sequences, FiniteSets, TLC

\* ------------------------------------------------------------------ bounds
\* Number of distinct photos (byte streams) in the model.
NumData == 2
\* Number of goroutines that may call PhotoSync.Sync (Game.Update spawns one
\* per due cycle).
NumSyncers == 2
\* Consecutive connection failures the network is allowed to produce.
MaxConnFails == 7
\* Files some other program removes from the client's photo directory.
MaxExternal == 1

\* --------------------------------------------------------- program constants
\* 1 * time.Minute, the initial and the reset value of retryBackoff.
BaseBackoff == 1
\* 1 * time.Hour, the ceiling of retryBackoff.
MaxBackoff == 60

\* ------------------------------------------------------------ bytes, hashes
Data == 1..NumData

\* The byte stream of photo d, in chunks as io.Copy moves them.
Content(d) == <<d, d>>

\* The body of the server's 404 answer (http.Error), which is no photo.
NotFoundBody == <<0>>

HashBase == NumData + 1

RECURSIVE HashAcc(_, _)
HashAcc(acc, bytes) ==
    IF bytes = <<>> THEN acc
    ELSE HashAcc(acc * HashBase + Head(bytes), Tail(bytes))

\* sha256 over the file's bytes, hex encoded: collision-free on the model's
\* contents (a positional numeral with a leading 1).
hashFile(bytes) == HashAcc(1, bytes)

PhotoHashes == { hashFile(Content(d)) : d \in Data }

\* The photo a hash stands for.
DataOf(h) == CHOOSE d \in Data : hashFile(Content(d)) = h

\* --------------------------------------------------------------- file names
Ext(name) == name[2]

Eligible(name) == Ext(name) = ".jpeg"

\* The client's photo directory can hold these names; os.ReadDir lists the
\* present ones sorted by filename, i.e. in this order.
LocalOrder == << <<"a", ".jpeg">>, <<"a", ".txt">>, <<"b", ".jpeg">> >>

LocalNames == { LocalOrder[i] : i \in 1..Len(LocalOrder) }

\* The filenames the server advertises to the client.
RemoteNames == { n \in LocalNames : Eligible(n) }

\* os.ReadDir(dir): the names present, sorted.
ReadDir(dir) == SelectSeq(LocalOrder, LAMBDA n : n \in DOMAIN dir)

\* os.Remove(path) on a directory.
RemoveFile(dir, name) == [ n \in (DOMAIN dir) \ {name} |-> dir[n] ]

\* os.Create(path) followed by writing bytes.
WriteFile(dir, name, bytes) ==
    [ n \in (DOMAIN dir) \cup {name} |-> IF n = name THEN bytes ELSE dir[n] ]

\* Directories whose files are whole photos.
PhotoDirs(names) ==
    UNION { [ S -> { Content(d) : d \in Data } ] : S \in SUBSET names }

\* ------------------------------------------------------------- inventories
PhotoMetadata == [ Hash : PhotoHashes, Filename : RemoteNames ]

SeqsUpTo(S, n) == UNION { [ 1..k -> S ] : k \in 0..n }

\* What GET /photos/list can answer: the store's index is keyed by hash, so
\* no hash occurs twice; filenames may repeat; the order is the map's.
Inventories ==
    { inv \in SeqsUpTo(PhotoMetadata, NumData) :
        \A i, j \in 1..Len(inv) : i # j => inv[i].Hash # inv[j].Hash }

RemoteHashes(inv) == { inv[i].Hash : i \in 1..Len(inv) }


\* ===================================================== client: PhotoSync
Syncers == 1..NumSyncers

VARIABLES
    localDir,       \* the files of ps.photoDir
    localHashes,    \* ps.localHashes
    retryBackoff,   \* ps.retryBackoff, in minutes
    lastError,      \* ps.lastError
    syncMutex,      \* ps.syncMutex is held
    pc,             \* where each Sync goroutine is
    result,         \* what each goroutine's last Sync call returned
    remotePhotos,   \* Sync's local remotePhotos
    delRemaining,   \* hashes `for hash := range ps.localHashes` has yet to visit
    dlIdx,          \* position of `for _, remote := range remotePhotos`
    deleteCount,    \* Sync's local deleteCount
    downloadCount,  \* Sync's local downloadCount
    calledBack,     \* this call invoked ps.onSyncComplete
    \* history of the current call, read by the properties only
    backoffAtCall,  \* retryBackoff when the call was made
    delAttempts,    \* calls of deleteLocalPhoto
    dlAttempts,     \* calls of downloadPhoto
    itemFailed,     \* a deleteLocalPhoto or downloadPhoto returned an error
    dlNotFound,     \* a download request was answered with 404
    realChange,     \* a file was really removed, or a photo really written
    connFails,      \* connection failures since the last answered fetch
    extRemovals     \* files removed by other programs so far

syncShared == <<localDir, localHashes, retryBackoff, lastError, syncMutex>>

syncLocals == <<remotePhotos, delRemaining, dlIdx, deleteCount, downloadCount,
                calledBack>>

syncHistory == <<backoffAtCall, delAttempts, dlAttempts, itemFailed, dlNotFound,
                 realChange>>

syncVars == <<syncShared, pc, result, syncLocals, syncHistory, connFails,
              extRemovals>>

\* NewPhotoSync.
NewPhotoSync ==
    /\ localHashes = {}
    /\ retryBackoff = BaseBackoff
    /\ lastError = "nil"
    /\ syncMutex = FALSE
    /\ pc = [p \in Syncers |-> "idle"]
    /\ result = [p \in Syncers |-> "none"]
    /\ remotePhotos = [p \in Syncers |-> <<>>]
    /\ delRemaining = [p \in Syncers |-> {}]
    /\ dlIdx = [p \in Syncers |-> 1]
    /\ deleteCount = [p \in Syncers |-> 0]
    /\ downloadCount = [p \in Syncers |-> 0]
    /\ calledBack = [p \in Syncers |-> FALSE]
    /\ backoffAtCall = [p \in Syncers |-> BaseBackoff]
    /\ delAttempts = [p \in Syncers |-> 0]
    /\ dlAttempts = [p \in Syncers |-> 0]
    /\ itemFailed = [p \in Syncers |-> FALSE]
    /\ dlNotFound = [p \in Syncers |-> FALSE]
    /\ realChange = [p \in Syncers |-> FALSE]
    /\ connFails = 0
    /\ extRemovals = 0

\* The client starts with any photos in ps.photoDir.
SyncInit == localDir \in PhotoDirs(LocalNames) /\ NewPhotoSync

\* ps.syncMutex.TryLock() succeeds.
TryLockAlways == TRUE
TryLock == ~syncMutex

\* The locals of a call of Sync that has not started or has returned.
FreshLocals(p) ==
    /\ remotePhotos' = [remotePhotos EXCEPT ![p] = <<>>]
    /\ delRemaining' = [delRemaining EXCEPT ![p] = {}]
    /\ dlIdx' = [dlIdx EXCEPT ![p] = 1]
    /\ deleteCount' = [deleteCount EXCEPT ![p] = 0]
    /\ downloadCount' = [downloadCount EXCEPT ![p] = 0]
    /\ backoffAtCall' = [backoffAtCall EXCEPT ![p] = BaseBackoff]
    /\ delAttempts' = [delAttempts EXCEPT ![p] = 0]
    /\ dlAttempts' = [dlAttempts EXCEPT ![p] = 0]
    /\ itemFailed' = [itemFailed EXCEPT ![p] = FALSE]
    /\ dlNotFound' = [dlNotFound EXCEPT ![p] = FALSE]
    /\ realChange' = [realChange EXCEPT ![p] = FALSE]

\* `return err` / `return nil`, with the deferred ps.syncMutex.Unlock(); the
\* call's locals are gone.
Return(p, res) ==
    /\ pc' = [pc EXCEPT ![p] = "idle"]
    /\ result' = [result EXCEPT ![p] = res]
    /\ syncMutex' = FALSE
    /\ FreshLocals(p)

\* Sync, up to the guard: TryLock, and the immediate return when it fails.
SyncCall(p) ==
    /\ pc[p] = "idle"
    /\ calledBack' = [calledBack EXCEPT ![p] = FALSE]
    /\ IF TryLock
       THEN /\ syncMutex' = TRUE
            /\ pc' = [pc EXCEPT ![p] = "fetch"]
            /\ result' = [result EXCEPT ![p] = "running"]
            /\ backoffAtCall' = [backoffAtCall EXCEPT ![p] = retryBackoff]
       ELSE /\ result' = [result EXCEPT ![p] = "AlreadyInProgress"]
            /\ UNCHANGED <<syncMutex, pc, backoffAtCall>>
    /\ UNCHANGED <<localDir, localHashes, retryBackoff, lastError, remotePhotos,
                   delRemaining, dlIdx, deleteCount, downloadCount, delAttempts,
                   dlAttempts, itemFailed, dlNotFound, realChange, connFails,
                   extRemovals>>

\* retryBackoff *= 2, capped at one hour.
BackoffUncapped(delay) == 2 * delay
BackoffAfterFailure(delay) ==
    IF 2 * delay > MaxBackoff THEN MaxBackoff ELSE 2 * delay

\* ps.client.Get(".../photos/list") returns an error.
SyncFetchContinues(p) ==
    /\ pc[p] = "fetch"
    /\ connFails < MaxConnFails
    /\ lastError' = "server connection failed"
    /\ retryBackoff' = BackoffAfterFailure(retryBackoff)
    /\ connFails' = connFails + 1
    /\ pc' = [pc EXCEPT ![p] = "load"]
    /\ UNCHANGED <<localDir, localHashes, syncMutex, result, syncLocals,
                   syncHistory, extRemovals>>
SyncFetchFail(p) ==
    /\ pc[p] = "fetch"
    /\ connFails < MaxConnFails
    /\ lastError' = "server connection failed"
    /\ retryBackoff' = BackoffAfterFailure(retryBackoff)
    /\ connFails' = connFails + 1
    /\ Return(p, "ConnectionFailure")
    /\ UNCHANGED <<localDir, localHashes, calledBack, extRemovals>>

\* The list request is answered: the backoff is reset before the payload is
\* decoded.
FetchAnswered ==
    /\ retryBackoff' = BaseBackoff
    /\ lastError' = "nil"
    /\ connFails' = 0

\* The answer's payload is not a JSON list of records.
SyncDecodeFail(p) ==
    /\ pc[p] = "fetch"
    /\ FetchAnswered
    /\ Return(p, "DecodeFailure")
    /\ UNCHANGED <<localDir, localHashes, calledBack, extRemovals>>

\* The answer decodes to the inventory inv.
SyncFetched(p, inv) ==
    /\ pc[p] = "fetch"
    /\ FetchAnswered
    /\ remotePhotos' = [remotePhotos EXCEPT ![p] = inv]
    /\ pc' = [pc EXCEPT ![p] = "load"]
    /\ UNCHANGED <<localDir, localHashes, syncMutex, result, delRemaining,
                   dlIdx, deleteCount, downloadCount, calledBack, syncHistory,
                   extRemovals>>

\* The hashes loadLocalHashes collects: of the .jpeg files only.
loadLocalHashes(dir) ==
    { hashFile(dir[n]) : n \in { m \in DOMAIN dir : Eligible(m) } }

\* ps.loadLocalHashes() and the start of the delete loop; os.ReadDir may fail.
SyncLoad(p, readOk) ==
    /\ pc[p] = "load"
    /\ IF readOk
       THEN /\ localHashes' = loadLocalHashes(localDir)
            /\ delRemaining' = [delRemaining EXCEPT ![p] = loadLocalHashes(localDir)]
            /\ pc' = [pc EXCEPT ![p] = "delete"]
            /\ UNCHANGED <<syncMutex, result, remotePhotos, dlIdx, deleteCount,
                           downloadCount, syncHistory>>
       ELSE /\ Return(p, "LoadFailure")
            /\ UNCHANGED localHashes
    /\ UNCHANGED <<localDir, retryBackoff, lastError, calledBack, connFails,
                   extRemovals>>

\* What the file system does to deleteLocalPhoto, and the transport and the
\* file system to downloadPhoto.
DeleteOutcomes == {"ok", "readdir fails", "remove fails"}

DownloadOutcomes == {"ok", "not found", "get fails", "create fails", "copy fails"}

\* The positions of ReadDir(dir) whose file hashes to hash.
Matching(dir, hash) ==
    { i \in 1..Len(ReadDir(dir)) : hashFile(dir[ReadDir(dir)[i]]) = hash }

\* The first file of the sorted listing that hashes to hash.  The listing is
\* not filtered by extension.
FirstMatch(dir, hash) ==
    ReadDir(dir)[CHOOSE i \in Matching(dir, hash) :
                    \A j \in Matching(dir, hash) : i <= j]

\* deleteLocalPhoto(hash): the error it returns and the directory it leaves.
\* It removes the first file that hashes to hash, and returns nil when no
\* file does.
deleteLocalPhoto(dir, hash, outcome) ==
    IF outcome = "readdir fails" THEN [err |-> TRUE, dir |-> dir]
    ELSE IF Matching(dir, hash) = {} THEN [err |-> FALSE, dir |-> dir]
    ELSE IF outcome = "remove fails" THEN [err |-> TRUE, dir |-> dir]
    ELSE [err |-> FALSE, dir |-> RemoveFile(dir, FirstMatch(dir, hash))]

\* The body of the answer to GET /photos/<hash>; the status is not looked at.
ResponseBody(hash, outcome) ==
    IF outcome = "not found" THEN NotFoundBody ELSE Content(DataOf(hash))

\* downloadPhoto(photo): the error it returns and the directory it leaves.
\* os.Create truncates the file named photo.Filename; a copy that fails has
\* written the first chunk.
downloadPhoto(dir, photo, outcome) ==
    IF outcome \in {"get fails", "create fails"} THEN [err |-> TRUE, dir |-> dir]
    ELSE IF outcome = "copy fails"
    THEN [err |-> TRUE,
          dir |-> WriteFile(dir, photo.Filename,
                            SubSeq(ResponseBody(photo.Hash, outcome), 1, 1))]
    ELSE [err |-> FALSE,
          dir |-> WriteFile(dir, photo.Filename,
                            ResponseBody(photo.Hash, outcome))]

\* `for _, remote := range remotePhotos { if remote.Hash == hash ...`
FoundRemote(p, hash) == hash \in RemoteHashes(remotePhotos[p])

\* A delete loop that a failed deleteLocalPhoto ends.
SyncDeleteBreaks(p, hash, outcome) ==
    /\ pc[p] = "delete"
    /\ hash \in delRemaining[p]
    /\ IF FoundRemote(p, hash)
       THEN /\ delRemaining' = [delRemaining EXCEPT ![p] = @ \ {hash}]
            /\ UNCHANGED <<localDir, deleteCount, delAttempts, itemFailed,
                           realChange>>
       ELSE LET r == deleteLocalPhoto(localDir, hash, outcome) IN
            /\ delRemaining' =
                  [delRemaining EXCEPT ![p] = IF r.err THEN {} ELSE @ \ {hash}]
            /\ localDir' = r.dir
            /\ deleteCount' = [deleteCount EXCEPT ![p] = IF r.err THEN @ ELSE @ + 1]
            /\ delAttempts' = [delAttempts EXCEPT ![p] = @ + 1]
            /\ itemFailed' = [itemFailed EXCEPT ![p] = @ \/ r.err]
            /\ realChange' = [realChange EXCEPT ![p] = @ \/ r.dir # localDir]
    /\ UNCHANGED <<localHashes, retryBackoff, lastError, syncMutex, pc, result,
                   remotePhotos, dlIdx, downloadCount, calledBack,
                   backoffAtCall, dlAttempts, dlNotFound, connFails,
                   extRemovals>>

\* One iteration of `for hash := range ps.localHashes`, in the map's order.
SyncDeleteNext(p, hash, outcome) ==
    /\ pc[p] = "delete"
    /\ hash \in delRemaining[p]
    /\ delRemaining' = [delRemaining EXCEPT ![p] = @ \ {hash}]
    /\ IF FoundRemote(p, hash)
       THEN UNCHANGED <<localDir, deleteCount, delAttempts, itemFailed, realChange>>
       ELSE LET r == deleteLocalPhoto(localDir, hash, outcome) IN
            /\ localDir' = r.dir
            /\ deleteCount' = [deleteCount EXCEPT ![p] = IF r.err THEN @ ELSE @ + 1]
            /\ delAttempts' = [delAttempts EXCEPT ![p] = @ + 1]
            /\ itemFailed' = [itemFailed EXCEPT ![p] = @ \/ r.err]
            /\ realChange' = [realChange EXCEPT ![p] = @ \/ r.dir # localDir]
    /\ UNCHANGED <<localHashes, retryBackoff, lastError, syncMutex, pc, result,
                   remotePhotos, dlIdx, downloadCount, calledBack,
                   backoffAtCall, dlAttempts, dlNotFound, connFails,
                   extRemovals>>

\* The delete loop has visited every local hash.
DeleteLoopLeftEarly(p) == TRUE
DeleteLoopDone(p) == delRemaining[p] = {}

\* The end of the delete loop and the start of the download loop.
SyncDeleteDone(p) ==
    /\ pc[p] = "delete"
    /\ DeleteLoopDone(p)
    /\ pc' = [pc EXCEPT ![p] = "download"]
    /\ dlIdx' = [dlIdx EXCEPT ![p] = 1]
    /\ UNCHANGED <<syncShared, result, remotePhotos, delRemaining, deleteCount,
                   downloadCount, calledBack, syncHistory, connFails,
                   extRemovals>>

\* One iteration of `for _, remote := range remotePhotos`.
SyncDownloadNext(p, outcome) ==
    /\ pc[p] = "download"
    /\ dlIdx[p] <= Len(remotePhotos[p])
    /\ dlIdx' = [dlIdx EXCEPT ![p] = @ + 1]
    /\ LET remote == remotePhotos[p][dlIdx[p]] IN
       IF remote.Hash \in localHashes
       THEN UNCHANGED <<localDir, downloadCount, dlAttempts, itemFailed,
                        dlNotFound, realChange>>
       ELSE LET r == downloadPhoto(localDir, remote, outcome) IN
            /\ localDir' = r.dir
            /\ dlNotFound' = [dlNotFound EXCEPT ![p] = @ \/ outcome = "not found"]
            /\ downloadCount' = [downloadCount EXCEPT ![p] = IF r.err THEN @ ELSE @ + 1]
            /\ dlAttempts' = [dlAttempts EXCEPT ![p] = @ + 1]
            /\ itemFailed' = [itemFailed EXCEPT ![p] = @ \/ r.err]
            /\ realChange' = [realChange EXCEPT ![p] =
                   @ \/ (~r.err /\ hashFile(r.dir[remote.Filename]) = remote.Hash)]
    /\ UNCHANGED <<localHashes, retryBackoff, lastError, syncMutex, pc, result,
                   remotePhotos, delRemaining, deleteCount, calledBack,
                   backoffAtCall, delAttempts, connFails, extRemovals>>

\* `if downloadCount > 0 || deleteCount > 0 { ps.onSyncComplete() }`
CallbackDue(p) == downloadCount[p] > 0 \/ deleteCount[p] > 0

\* The end of the download loop, the completion callback and `return nil`.
SyncReturn(p) ==
    /\ pc[p] = "download"
    /\ dlIdx[p] > Len(remotePhotos[p])
    /\ calledBack' = [calledBack EXCEPT ![p] = CallbackDue(p)]
    /\ Return(p, "ok")
    /\ UNCHANGED <<localDir, localHashes, retryBackoff, lastError, connFails,
                   extRemovals>>

\* Another program removes a file from the photo directory.
ExternalRemove(name) ==
    /\ extRemovals < MaxExternal
    /\ name \in DOMAIN localDir
    /\ localDir' = RemoveFile(localDir, name)
    /\ extRemovals' = extRemovals + 1
    /\ UNCHANGED <<localHashes, retryBackoff, lastError, syncMutex, pc, result,
                   syncLocals, syncHistory, connFails>>

\* =================================================== server: PhotoStorage
\* Goroutines serving requests of the store concurrently.
NumWorkers == 2
Workers == 1..NumWorkers

\* Requests the server is sent in one run.
MaxCalls == 3

\* The filenames uploads use.
UploadNames == RemoteNames

\* filepath.Join(ps.baseDir, "tmp-"+filename)
TmpName(name) == <<"tmp-" \o name[1], name[2]>>

TmpNames == { TmpName(n) : n \in UploadNames }

\* The base directory can hold these names; filepath.Walk visits the present
\* ones in lexical order, i.e. in this order.
StoreOrder ==
    << <<"a", ".jpeg">>, <<"b", ".jpeg">>, <<"tmp-a", ".jpeg">>, <<"tmp-b", ".jpeg">> >>

VARIABLES
    storeDir,   \* the files of ps.baseDir: name -> [ino, bytes]; ino is 0
                \* unless a goroutine holds the file open
    photos,     \* ps.photos: hash -> PhotoMetadata
    mu,         \* ps.mu: "free", "init" (held by loadExistingPhotos) or the
                \* worker that holds the write lock
    phase,      \* "init" (NewPhotoStorage running), "serving" or "failed"
    walkIdx,    \* position of filepath.Walk in the listing
    wpc,        \* where each worker is
    wname,      \* Add's filename
    wdata,      \* the photo Add's reader delivers
    woff,       \* chunks io.Copy has written through Add's f
    wfd,        \* the file Add's f refers to (0: none)
    whash,      \* Delete's hash
    wres,       \* history: what the last call that returned, returned
    added,      \* history: the hashes successful Adds have returned
    calls,      \* history: the Add and Delete calls made so far
    overlapped, \* history: two calls have been in progress at once
    deleted     \* history: the hashes a Delete removed and no Add indexed since

storeVars == <<storeDir, photos, mu, phase, walkIdx, wpc, wname, wdata, woff,
               wfd, whash, wres, added, calls, overlapped,
               deleted>>

workerLocals == <<wname, wdata, woff, wfd, whash>>

EmptyMap == [ x \in {} |-> 0 ]

\* The workers of a process that has just started.
WorkersIdle ==
    /\ wpc = [t \in Workers |-> "idle"]
    /\ wname = [t \in Workers |-> <<"a", ".jpeg">>]
    /\ wdata = [t \in Workers |-> 1]
    /\ woff = [t \in Workers |-> 0]
    /\ wfd = [t \in Workers |-> 0]
    /\ whash = [t \in Workers |-> 0]
    /\ wres = "none"

\* NewPhotoStorage up to the call of loadExistingPhotos, which takes ps.mu.
NewPhotoStorage ==
    /\ photos = EmptyMap
    /\ mu = "init"
    /\ phase = "init"
    /\ walkIdx = 1
    /\ WorkersIdle
    /\ added = {}
    /\ calls = 0
    /\ overlapped = FALSE
    /\ deleted = {}

\* A closed file holding bytes.
File(bytes) == [ino |-> 0, bytes |-> bytes]

\* What an upload that was interrupted (the process was stopped during
\* io.Copy) leaves behind: no file, or one temporary file holding the first
\* chunk of a photo.
Leftovers ==
    {EmptyMap} \cup
    { [ n \in {tmp} |-> File(<<d>>) ] : tmp \in TmpNames, d \in Data }

\* The server starts on a base directory holding any photos under the upload
\* names, and what an interrupted upload left.
StoreInit ==
    /\ storeDir \in
          { photoFiles @@ left :
              photoFiles \in UNION { [ S -> { File(Content(d)) : d \in Data } ] :
                                     S \in SUBSET UploadNames },
              left \in Leftovers }
    /\ NewPhotoStorage

\* The names present in dir, in the order of the walk.
WalkListing(dir) == SelectSeq(StoreOrder, LAMBDA n : n \in DOMAIN dir)

\* ps.photos[hash] = meta
PutPhoto(index, hash, name) ==
    [ h \in (DOMAIN index) \cup {hash} |->
        IF h = hash THEN [Hash |-> hash, Filename |-> name] ELSE index[h] ]

\* A delete that leaves the record in place.
DropPhotoKeeps(index, hash) == index

\* delete(ps.photos, hash)
DropPhoto(index, hash) == [ h \in (DOMAIN index) \ {hash} |-> index[h] ]

\* loadExistingPhotos: the walk function on the next file, under ps.mu.  A
\* file of extension .jpeg is hashed and indexed; a file that cannot be hashed
\* ends the walk with the error, and main exits (log.Fatal).
LoadWalkNext(hashOk) ==
    /\ phase = "init"
    /\ walkIdx <= Len(WalkListing(storeDir))
    /\ LET name == WalkListing(storeDir)[walkIdx] IN
       IF ~Eligible(name)
       THEN /\ walkIdx' = walkIdx + 1
            /\ UNCHANGED <<photos, phase, mu>>
       ELSE IF hashOk
       THEN /\ photos' = PutPhoto(photos, hashFile(storeDir[name].bytes), name)
            /\ walkIdx' = walkIdx + 1
            /\ UNCHANGED <<phase, mu>>
       ELSE /\ phase' = "failed"
            /\ mu' = "free"
            /\ UNCHANGED <<photos, walkIdx>>
    /\ UNCHANGED <<storeDir, wpc, workerLocals, wres, added, calls,
                   overlapped, deleted>>

\* The walk is over: loadExistingPhotos releases ps.mu and the server serves.
LoadWalkDone ==
    /\ phase = "init"
    /\ walkIdx > Len(WalkListing(storeDir))
    /\ phase' = "serving"
    /\ mu' = "free"
    /\ UNCHANGED <<storeDir, photos, walkIdx, wpc, workerLocals, wres, added,
                   calls, overlapped, deleted>>

\* ---------------------------------------------------------- files of Add
\* The open files: what the workers' f refer to.
InUse == { wfd[t] : t \in Workers } \ {0}

\* An identity for a file that os.Create makes.
FreshIno ==
    CHOOSE i \in 1..NumWorkers :
        i \notin InUse /\ \A j \in 1..NumWorkers : j \notin InUse => i <= j

\* The name under which the open file ino is linked, if any.
LinkedAs(dir, ino) == { n \in DOMAIN dir : dir[n].ino = ino }

PutFile(dir, name, file) ==
    [ n \in (DOMAIN dir) \cup {name} |-> IF n = name THEN file ELSE dir[n] ]

\* A write of chunk at offset off: it overwrites, appends, or appends after a
\* hole of zeros when the file was truncated below off.
WriteAt(bytes, off, chunk) ==
    IF off < Len(bytes) THEN [bytes EXCEPT ![off + 1] = chunk]
    ELSE bytes \o [ i \in 1..(off - Len(bytes)) |-> 0 ] \o <<chunk>>

\* f.Close() by worker t: the file is open no more unless another worker's f
\* refers to it.
CloseFile(dir, t) ==
    IF wfd[t] = 0 \/ \E u \in Workers \ {t} : wfd[u] = wfd[t] THEN dir
    ELSE [ n \in DOMAIN dir |->
             IF dir[n].ino = wfd[t] THEN [dir[n] EXCEPT !.ino = 0] ELSE dir[n] ]

\* The worker's call returns res; its locals are gone.
WReturn(t, res) ==
    /\ wpc' = [wpc EXCEPT ![t] = "idle"]
    /\ wres' = res
    /\ wname' = [wname EXCEPT ![t] = <<"a", ".jpeg">>]
    /\ wdata' = [wdata EXCEPT ![t] = 1]
    /\ woff' = [woff EXCEPT ![t] = 0]
    /\ wfd' = [wfd EXCEPT ![t] = 0]
    /\ whash' = [whash EXCEPT ![t] = 0]

\* Another worker is inside a call.
OthersBusy(t) == \E u \in Workers \ {t} : wpc[u] # "idle"

\* Add(filename, reader): os.Create(tempPath).  It truncates the temporary
\* file when that exists, also one another Add is writing.
AddCreate(t, name, d, createOk) ==
    /\ phase = "serving"
    /\ wpc[t] = "idle"
    /\ calls < MaxCalls
    /\ calls' = calls + 1
    /\ overlapped' = (overlapped \/ OthersBusy(t))
    /\ IF createOk
       THEN LET tmp == TmpName(name)
                ino == IF tmp \in DOMAIN storeDir /\ storeDir[tmp].ino # 0
                       THEN storeDir[tmp].ino ELSE FreshIno
            IN  /\ storeDir' = PutFile(storeDir, tmp, [ino |-> ino, bytes |-> <<>>])
                /\ wfd' = [wfd EXCEPT ![t] = ino]
                /\ wname' = [wname EXCEPT ![t] = name]
                /\ wdata' = [wdata EXCEPT ![t] = d]
                /\ woff' = [woff EXCEPT ![t] = 0]
                /\ wpc' = [wpc EXCEPT ![t] = "copy"]
                /\ UNCHANGED <<whash, wres>>
       ELSE /\ wres' = "WriteError"
            /\ UNCHANGED <<storeDir, wpc, workerLocals>>
    /\ UNCHANGED <<photos, mu, phase, walkIdx, added, deleted>>

\* io.Copy(io.MultiWriter(f, h), reader): the next chunk goes to the file f
\* refers to, at f's offset, whatever name it has by now.
AddCopy(t) ==
    /\ wpc[t] = "copy"
    /\ woff[t] < Len(Content(wdata[t]))
    /\ storeDir' =
          [ n \in DOMAIN storeDir |->
              IF n \in LinkedAs(storeDir, wfd[t])
              THEN [storeDir[n] EXCEPT
                      !.bytes = WriteAt(@, woff[t], Content(wdata[t])[woff[t] + 1])]
              ELSE storeDir[n] ]
    /\ woff' = [woff EXCEPT ![t] = @ + 1]
    /\ UNCHANGED <<photos, mu, phase, walkIdx, wpc, wname, wdata, wfd, whash,
                   wres, added, calls, overlapped, deleted>>

\* io.Copy returns an error: f.Close(), os.Remove(tempPath), return.
AddCopyFail(t) ==
    /\ wpc[t] = "copy"
    /\ woff[t] < Len(Content(wdata[t]))
    /\ storeDir' =
          LET closed == CloseFile(storeDir, t) IN
          [ n \in (DOMAIN closed) \ {TmpName(wname[t])} |-> closed[n] ]
    /\ WReturn(t, "WriteError")
    /\ UNCHANGED <<photos, mu, phase, walkIdx, added, calls, overlapped, deleted>>

\* The copy is complete: f.Close() and os.Rename(tempPath, finalPath).  The
\* rename fails when the temporary file is gone.
AddRename(t) ==
    /\ wpc[t] = "copy"
    /\ woff[t] = Len(Content(wdata[t]))
    /\ LET closed == CloseFile(storeDir, t)
           tmp == TmpName(wname[t])
       IN  IF tmp \in DOMAIN closed
           THEN /\ storeDir' =
                      [ n \in ((DOMAIN closed) \ {tmp}) \cup {wname[t]} |->
                          IF n = wname[t] THEN closed[tmp] ELSE closed[n] ]
                /\ wpc' = [wpc EXCEPT ![t] = "stat"]
                /\ wfd' = [wfd EXCEPT ![t] = 0]
                /\ UNCHANGED <<wname, wdata, woff, whash, wres>>
           ELSE /\ storeDir' = closed
                /\ WReturn(t, "WriteError")
    /\ UNCHANGED <<photos, mu, phase, walkIdx, added, calls, overlapped, deleted>>

\* os.Stat(finalPath)
AddStat(t) ==
    /\ wpc[t] = "stat"
    /\ IF wname[t] \in DOMAIN storeDir
       THEN /\ wpc' = [wpc EXCEPT ![t] = "index"]
            /\ UNCHANGED <<workerLocals, wres>>
       ELSE WReturn(t, "WriteError")
    /\ UNCHANGED <<storeDir, photos, mu, phase, walkIdx, added, calls, overlapped, deleted>>

\* ps.mu.Lock(); ps.photos[hash] = meta; ps.mu.Unlock(); return &meta.  The
\* hash is that of the stream the reader delivered.
AddIndex(t) ==
    /\ wpc[t] = "index"
    /\ mu = "free"
    /\ photos' = PutPhoto(photos, hashFile(Content(wdata[t])), wname[t])
    /\ added' = added \cup {hashFile(Content(wdata[t]))}
    /\ deleted' = deleted \ {hashFile(Content(wdata[t]))}
    /\ WReturn(t, "ok")
    /\ UNCHANGED <<storeDir, mu, phase, walkIdx, calls, overlapped>>

\* Delete(hash): ps.mu.Lock() and the lookup; NotFound when hash is absent.
DeleteLock(t, hash) ==
    /\ phase = "serving"
    /\ wpc[t] = "idle"
    /\ calls < MaxCalls
    /\ mu = "free"
    /\ calls' = calls + 1
    /\ overlapped' = (overlapped \/ OthersBusy(t))
    /\ IF hash \in DOMAIN photos
       THEN /\ mu' = "held"
            /\ wpc' = [wpc EXCEPT ![t] = "remove"]
            /\ whash' = [whash EXCEPT ![t] = hash]
            /\ UNCHANGED <<wname, wdata, woff, wfd, wres>>
       ELSE /\ wres' = "NotFound"
            /\ UNCHANGED <<mu, wpc, workerLocals>>
    /\ UNCHANGED <<storeDir, photos, phase, walkIdx, added, deleted>>

\* A Delete that drops the record also when the removal failed.
DeleteRemoveDrops(t, removeOk) ==
    /\ wpc[t] = "remove"
    /\ LET name == photos[whash[t]].Filename IN
       IF name \in DOMAIN storeDir /\ removeOk
       THEN /\ storeDir' = [ n \in (DOMAIN storeDir) \ {name} |-> storeDir[n] ]
            /\ deleted' = deleted \cup {whash[t]}
            /\ WReturn(t, "ok")
       ELSE /\ WReturn(t, "DeleteError")
            /\ UNCHANGED <<storeDir, deleted>>
    /\ photos' = DropPhoto(photos, whash[t])
    /\ mu' = "free"
    /\ UNCHANGED <<phase, walkIdx, added, calls, overlapped>>

\* Delete, under ps.mu: os.Remove(path), and delete(ps.photos, hash) when
\* the removal succeeded.
DeleteRemove(t, removeOk) ==
    /\ wpc[t] = "remove"
    /\ LET name == photos[whash[t]].Filename IN
       IF name \in DOMAIN storeDir /\ removeOk
       THEN /\ storeDir' = [ n \in (DOMAIN storeDir) \ {name} |-> storeDir[n] ]
            /\ photos' = DropPhoto(photos, whash[t])
            /\ deleted' = deleted \cup {whash[t]}
            /\ WReturn(t, "ok")
       ELSE /\ WReturn(t, "DeleteError")
            /\ UNCHANGED <<storeDir, photos, deleted>>
    /\ mu' = "free"
    /\ UNCHANGED <<phase, walkIdx, added, calls, overlapped>>

\* Get(hash): the path of the indexed record; the file is not looked at.
Get(hash) ==
    IF hash \in DOMAIN photos
    THEN [ok |-> TRUE, path |-> photos[hash].Filename]
    ELSE [ok |-> FALSE, path |-> <<>>]

\* List(): the indexed records, in the order the map iteration yields them,
\* which the language leaves open: the records as a set.
List == { photos[h] : h \in DOMAIN photos }

\* The hashes requests name: those of photos and those in the index.
RequestHashes == PhotoHashes \cup DOMAIN photos

\* ============================================================ client: Game
\* Eligible files the photo directory holds when one load is looked at; the
\* admission gate matters when they are more than it admits.
NumGameFiles == 5

\* Files the photo directory can hold when loads and reloads interleave.
NumReloadFiles == 2

\* Calls of loadImagesFromDir in one run: that of main and those of
\* reloadPhotos.
MaxLoads == 2

\* semaphore := make(chan struct{}, 4)
MaxConcurrent == 4

Loads == 1..MaxLoads

\* The names in the photo directory: photos, and a file that is no photo.
GameNames == { <<i, ".jpeg">> : i \in 1..NumGameFiles } \cup { <<1, ".txt">> }

ReloadNames == { <<i, ".jpeg">> : i \in 1..NumReloadFiles } \cup { <<1, ".txt">> }

VARIABLES
    gdir,       \* the names of the files in the photo directory
    images,     \* g.images; an entry is the image and the path it was
                \* loaded from, which the program does not keep
    currentIdx, \* g.currentIdx
    gpc,        \* "main" (before main's load), "idle", or "cleared"
                \* (reloadPhotos between the clear and the load)
    loadNo,     \* calls of loadImagesFromDir made so far
    lw,         \* per load: its worker goroutines, file name -> "waiting"
                \* (before the acquire), "holding" or "done"
    sem,        \* per load: the elements in its semaphore channel
    prevPc,     \* the game loop in previousPhoto: "dec" between
                \* `g.currentIdx--` and the wrap, holding g.mu.RLock, else
                \* "out"
    drawn       \* what the last Draw read: "none" (no Draw yet), "empty"
                \* (no image), "entry" or "out of range" (the index
                \* expression panics)

gameVars == <<gdir, images, currentIdx, gpc, loadNo, lw, sem, prevPc, drawn>>

NoWorkers == [ n \in {} |-> "done" ]

\* game := &Game{images: make(...), currentIdx: 0, ...} in main.
NewGame ==
    /\ images = <<>>
    /\ currentIdx = 0
    /\ gpc = "main"
    /\ loadNo = 0
    /\ lw = [ i \in Loads |-> NoWorkers ]
    /\ sem = [ i \in Loads |-> 0 ]
    /\ prevPc = "out"
    /\ drawn = "none"

\* g.mu is read-locked across steps: previousPhoto is between its two
\* writes.  g.mu.Lock() waits as long.
RLocked == prevPc = "dec"

\* One load of a directory with more photos than the gate admits.
LoadInit == gdir = GameNames /\ NewGame

\* The program starts on any directory of a few files.
GameInit == gdir \in SUBSET ReloadNames /\ NewGame

\* loadImagesFromDir(dir, game): os.ReadDir, and one goroutine per file of
\* extension .jpeg, each starting at the acquire.  A directory that cannot
\* be read starts none.
loadImagesFromDir(readOk) ==
    /\ loadNo < MaxLoads
    /\ loadNo' = loadNo + 1
    /\ lw' = [lw EXCEPT ![loadNo + 1] =
                 IF readOk
                 THEN [ n \in { m \in gdir : Eligible(m) } |-> "waiting" ]
                 ELSE NoWorkers]
    /\ gpc' = "idle"
    /\ UNCHANGED <<gdir, images, currentIdx, sem, prevPc, drawn>>

\* main calls loadImagesFromDir and runs the game.
MainLoad(readOk) ==
    /\ gpc = "main"
    /\ loadImagesFromDir(readOk)

\* A gate that admits whoever asks.
GateOpenAlways(i) == TRUE

\* `semaphore <- struct{}{}` can proceed: the channel is not full.
GateOpen(i) == sem[i] < MaxConcurrent

\* A worker acquires a slot of its load's semaphore.
Acquire(i, n) ==
    /\ n \in DOMAIN lw[i]
    /\ lw[i][n] = "waiting"
    /\ GateOpen(i)
    /\ sem' = [sem EXCEPT ![i] = @ + 1]
    /\ lw' = [lw EXCEPT ![i][n] = "holding"]
    /\ UNCHANGED <<gdir, images, currentIdx, gpc, loadNo, prevPc, drawn>>

\* g.AddImage(img): append under g.mu, whatever g.images holds.
AddImage(imgs, img) == Append(imgs, img)

\* A worker whose load failed returns without the release.
FinishLeaks(i, n, loadOk) ==
    /\ n \in DOMAIN lw[i]
    /\ lw[i][n] = "holding"
    /\ loadOk => ~RLocked
    /\ images' = IF loadOk
                 THEN AddImage(images, [path |-> n, load |-> i])
                 ELSE images
    /\ sem' = [sem EXCEPT ![i] = IF loadOk THEN @ - 1 ELSE @]
    /\ lw' = [lw EXCEPT ![i][n] = "done"]
    /\ UNCHANGED <<gdir, currentIdx, gpc, loadNo, prevPc, drawn>>

\* The rest of a worker: loadImage(path), game.AddImage(img) when the load
\* succeeded, and the deferred release and wg.Done().
Finish(i, n, loadOk) ==
    /\ n \in DOMAIN lw[i]
    /\ lw[i][n] = "holding"
    /\ loadOk => ~RLocked
    /\ images' = IF loadOk
                 THEN AddImage(images, [path |-> n, load |-> i])
                 ELSE images
    /\ sem' = [sem EXCEPT ![i] = @ - 1]
    /\ lw' = [lw EXCEPT ![i][n] = "done"]
    /\ UNCHANGED <<gdir, currentIdx, gpc, loadNo, prevPc, drawn>>

\* reloadPhotos, called by a Sync that counted a change, up to the unlock:
\* g.images = make(...); g.currentIdx = 0.  The Sync has left the directory
\* as newDir.
ReloadClear(newDir) ==
    /\ gpc = "idle"
    /\ loadNo < MaxLoads
    /\ ~RLocked
    /\ gdir' = newDir
    /\ images' = <<>>
    /\ currentIdx' = 0
    /\ gpc' = "cleared"
    /\ UNCHANGED <<loadNo, lw, sem, prevPc, drawn>>

\* reloadPhotos: loadImagesFromDir(g.photoSync.photoDir, g).
ReloadLoad(readOk) ==
    /\ gpc = "cleared"
    /\ loadImagesFromDir(readOk)

\* Update and Draw are called by the game loop of ebiten.RunGame one after
\* the other, so nextPhoto, previousPhoto and Draw never overlap each other;
\* they hold g.mu.RLock, which keeps AddImage and reloadPhotos out.

\* nextPhoto: the cursor moves forward and wraps.
nextPhoto ==
    /\ gpc # "main"
    /\ prevPc = "out"
    /\ Len(images) > 0
    /\ currentIdx' = (currentIdx + 1) % Len(images)
    /\ UNCHANGED <<gdir, images, gpc, loadNo, lw, sem, prevPc, drawn>>

\* previousPhoto up to `g.currentIdx--`.
previousPhotoDec ==
    /\ gpc # "main"
    /\ prevPc = "out"
    /\ Len(images) > 0
    /\ currentIdx' = currentIdx - 1
    /\ prevPc' = "dec"
    /\ UNCHANGED <<gdir, images, gpc, loadNo, lw, sem, drawn>>

\* A cursor left where the decrement put it.
WrapNever(idx, n) == idx

\* `if g.currentIdx < 0 { g.currentIdx = len(g.images) - 1 }`
WrapToLast(idx, n) == IF idx < 0 THEN n - 1 ELSE idx

\* previousPhoto from the wrap to g.mu.RUnlock().
previousPhotoWrap ==
    /\ prevPc = "dec"
    /\ currentIdx' = WrapToLast(currentIdx, Len(images))
    /\ prevPc' = "out"
    /\ UNCHANGED <<gdir, images, gpc, loadNo, lw, sem, drawn>>

\* previousPhoto: the cursor moves back and wraps.
previousPhoto == previousPhotoDec \/ previousPhotoWrap

\* Draw up to g.mu.RUnlock(): nothing to read when there is no image, else
\* `img := g.images[g.currentIdx]`.
Draw ==
    /\ gpc # "main"
    /\ prevPc = "out"
    /\ drawn' = IF Len(images) = 0 THEN "empty"
                ELSE IF 0 <= currentIdx /\ currentIdx < Len(images) THEN "entry"
                ELSE "out of range"
    /\ UNCHANGED <<gdir, images, currentIdx, gpc, loadNo, lw, sem, prevPc>>

\* The call of p is past the guard and has not returned.
InFlight(p) == pc[p] # "idle"

\* ================================================================ systems
\* The inventory of a store that no longer changes: its records.
VARIABLE advertised

vars == <<syncVars, storeVars, gameVars, advertised>>

\* No store of a fixed inventory is part of the system.
NoInventory == advertised = {}

\* The client alone, against any answers of the transport.
SyncQuiet == localDir = EmptyMap /\ NewPhotoSync

StoreQuiet == storeDir = EmptyMap /\ NewPhotoStorage

GameQuiet == gdir = {} /\ NewGame

NextSync ==
    \/ \E p \in Syncers : SyncCall(p) /\ UNCHANGED <<storeVars, gameVars, advertised>>
    \/ \E p \in Syncers : SyncFetchFail(p) /\ UNCHANGED <<storeVars, gameVars, advertised>>
    \/ \E p \in Syncers : SyncDecodeFail(p) /\ UNCHANGED <<storeVars, gameVars, advertised>>
    \/ \E p \in Syncers, inv \in Inventories :
          SyncFetched(p, inv) /\ UNCHANGED <<storeVars, gameVars, advertised>>
    \/ \E p \in Syncers, readOk \in BOOLEAN :
          SyncLoad(p, readOk) /\ UNCHANGED <<storeVars, gameVars, advertised>>
    \/ \E p \in Syncers, hash \in PhotoHashes, outcome \in DeleteOutcomes :
          SyncDeleteNext(p, hash, outcome) /\ UNCHANGED <<storeVars, gameVars, advertised>>
    \/ \E p \in Syncers : SyncDeleteDone(p) /\ UNCHANGED <<storeVars, gameVars, advertised>>
    \/ \E p \in Syncers, outcome \in DownloadOutcomes :
          SyncDownloadNext(p, outcome) /\ UNCHANGED <<storeVars, gameVars, advertised>>
    \/ \E p \in Syncers : SyncReturn(p) /\ UNCHANGED <<storeVars, gameVars, advertised>>
    \/ \E name \in LocalNames : ExternalRemove(name) /\ UNCHANGED <<storeVars, gameVars, advertised>>

\* The client starts; the server is not part of the system.
InitSync == SyncInit /\ StoreQuiet /\ GameQuiet /\ NoInventory

SpecSync == InitSync /\ [][NextSync]_vars

\* The store alone, serving any requests.
NextStore ==
    \/ \E hashOk \in BOOLEAN : LoadWalkNext(hashOk) /\ UNCHANGED <<syncVars, gameVars, advertised>>
    \/ LoadWalkDone /\ UNCHANGED <<syncVars, gameVars, advertised>>
    \/ \E t \in Workers, name \in UploadNames, d \in Data, createOk \in BOOLEAN :
          AddCreate(t, name, d, createOk) /\ UNCHANGED <<syncVars, gameVars, advertised>>
    \/ \E t \in Workers : AddCopy(t) /\ UNCHANGED <<syncVars, gameVars, advertised>>
    \/ \E t \in Workers : AddCopyFail(t) /\ UNCHANGED <<syncVars, gameVars, advertised>>
    \/ \E t \in Workers : AddRename(t) /\ UNCHANGED <<syncVars, gameVars, advertised>>
    \/ \E t \in Workers : AddStat(t) /\ UNCHANGED <<syncVars, gameVars, advertised>>
    \/ \E t \in Workers : AddIndex(t) /\ UNCHANGED <<syncVars, gameVars, advertised>>
    \/ \E t \in Workers, hash \in RequestHashes :
          DeleteLock(t, hash) /\ UNCHANGED <<syncVars, gameVars, advertised>>
    \/ \E t \in Workers, removeOk \in BOOLEAN :
          DeleteRemove(t, removeOk) /\ UNCHANGED <<syncVars, gameVars, advertised>>

\* The server starts; the client is not part of the system.
InitStore == StoreInit /\ SyncQuiet /\ GameQuiet /\ NoInventory

SpecStore == InitStore /\ [][NextStore]_vars

\* One call of loadImagesFromDir, by main, and its workers.
NextLoad ==
    \/ \E readOk \in BOOLEAN :
          MainLoad(readOk) /\ UNCHANGED <<syncVars, storeVars, advertised>>
    \/ \E i \in Loads, n \in GameNames :
          Acquire(i, n) /\ UNCHANGED <<syncVars, storeVars, advertised>>
    \/ \E i \in Loads, n \in GameNames, loadOk \in BOOLEAN :
          Finish(i, n, loadOk) /\ UNCHANGED <<syncVars, storeVars, advertised>>

\* The game starts on a directory of more photos than the gate admits.
InitLoad == LoadInit /\ SyncQuiet /\ StoreQuiet /\ NoInventory

SpecLoad == InitLoad /\ [][NextLoad]_vars

\* The scheduler runs main and every goroutine that can take a step: a
\* worker at the gate proceeds once the channel has room, and a worker that
\* holds a slot finishes its load.
LoadFairness ==
    /\ WF_vars(\E readOk \in BOOLEAN :
                  MainLoad(readOk) /\ UNCHANGED <<syncVars, storeVars, advertised>>)
    /\ \A i \in Loads, n \in GameNames :
          /\ WF_vars(Acquire(i, n) /\ UNCHANGED <<syncVars, storeVars, advertised>>)
          /\ WF_vars(\E loadOk \in BOOLEAN :
                        Finish(i, n, loadOk) /\ UNCHANGED <<syncVars, storeVars, advertised>>)

SpecLoadFair == InitLoad /\ [][NextLoad]_vars /\ LoadFairness

\* The game: main's load, the reloads that Syncs trigger, the workers of all
\* loads, and the cursor.
NextGame ==
    \/ \E readOk \in BOOLEAN :
          MainLoad(readOk) /\ UNCHANGED <<syncVars, storeVars, advertised>>
    \/ \E i \in Loads, n \in ReloadNames :
          Acquire(i, n) /\ UNCHANGED <<syncVars, storeVars, advertised>>
    \/ \E i \in Loads, n \in ReloadNames, loadOk \in BOOLEAN :
          Finish(i, n, loadOk) /\ UNCHANGED <<syncVars, storeVars, advertised>>
    \/ \E newDir \in SUBSET ReloadNames :
          ReloadClear(newDir) /\ UNCHANGED <<syncVars, storeVars, advertised>>
    \/ \E readOk \in BOOLEAN :
          ReloadLoad(readOk) /\ UNCHANGED <<syncVars, storeVars, advertised>>
    \/ nextPhoto /\ UNCHANGED <<syncVars, storeVars, advertised>>
    \/ previousPhotoDec /\ UNCHANGED <<syncVars, storeVars, advertised>>
    \/ previousPhotoWrap /\ UNCHANGED <<syncVars, storeVars, advertised>>
    \/ Draw /\ UNCHANGED <<syncVars, storeVars, advertised>>

\* The game starts; the Syncs show as reloads only.
InitGame == GameInit /\ SyncQuiet /\ StoreQuiet /\ NoInventory

SpecGame == InitGame /\ [][NextGame]_vars

\* The records of an inventory.
RecordsOf(inv) == { inv[i] : i \in 1..Len(inv) }

\* The inventories a store can hold: no hash occurs twice.
Advertisable == { RecordsOf(inv) : inv \in Inventories }

\* What GET /photos/list answers for the records recs, in any order.
Listings(recs) ==
    { inv \in Inventories :
        Len(inv) = Cardinality(recs) /\ RecordsOf(inv) = recs }

\* Sync cycles against a store whose inventory stays as it is, with no
\* connection, decode or per-item failure and no other program in the
\* directory.
NextConverge ==
    \/ \E p \in Syncers :
          SyncCall(p) /\ UNCHANGED <<storeVars, gameVars, advertised>>
    \/ \E p \in Syncers, inv \in Listings(advertised) :
          SyncFetched(p, inv) /\ UNCHANGED <<storeVars, gameVars, advertised>>
    \/ \E p \in Syncers :
          SyncLoad(p, TRUE) /\ UNCHANGED <<storeVars, gameVars, advertised>>
    \/ \E p \in Syncers, hash \in PhotoHashes :
          SyncDeleteNext(p, hash, "ok")
          /\ UNCHANGED <<storeVars, gameVars, advertised>>
    \/ \E p \in Syncers :
          SyncDeleteDone(p) /\ UNCHANGED <<storeVars, gameVars, advertised>>
    \/ \E p \in Syncers :
          SyncDownloadNext(p, "ok")
          /\ UNCHANGED <<storeVars, gameVars, advertised>>
    \/ \E p \in Syncers :
          SyncReturn(p) /\ UNCHANGED <<storeVars, gameVars, advertised>>

\* Any photo directory, any inventory the store can hold.
InitConverge ==
    SyncInit /\ advertised \in Advertisable /\ StoreQuiet /\ GameQuiet

\* Update keeps starting Syncs, and a Sync that is in flight takes its next
\* step.
ConvergeFairness ==
    /\ WF_vars(\E p \in Syncers :
                  SyncCall(p) /\ pc'[p] = "fetch"
                  /\ UNCHANGED <<storeVars, gameVars, advertised>>)
    /\ WF_vars(\E p \in Syncers :
                  InFlight(p) /\ NextConverge)

SpecConverge == InitConverge /\ [][NextConverge]_vars /\ ConvergeFairness

\* ------------------------------------------------- properties of PhotoSync

\* The download loop has ended: Sync is about to return nil.
AtReturn(p) == pc[p] = "download" /\ dlIdx[p] > Len(remotePhotos[p])

Min(a, b) == IF a <= b THEN a ELSE b

\* The eligible files of dir that hash to hash.
EligibleFiles(dir, hash) ==
    { n \in DOMAIN dir : Eligible(n) /\ hashFile(dir[n]) = hash }

\* The files of dir that hash to hash.
FilesOf(dir, hash) == { n \in DOMAIN dir : hashFile(dir[n]) = hash }

\* C1: Sync is single-flight.  At most one call is past the guard in every
\* state, and a call made while another call is in flight returns "already in
\* progress" in that same step: it does not go on to fetch the inventory and
\* leaves the directory, the local inventory and the backoff state alone.
C1_SingleFlight ==
    /\ [](Cardinality({ p \in Syncers : InFlight(p) }) <= 1)
    /\ [][\A p \in Syncers :
            ( /\ ~InFlight(p)
              /\ \E q \in Syncers \ {p} : InFlight(q)
              /\ <<pc[p], result[p]>>' # <<pc[p], result[p]>> )
            => /\ pc'[p] = "idle"
               /\ result'[p] = "AlreadyInProgress"
               /\ remotePhotos'[p] = <<>>
               /\ UNCHANGED <<localDir, localHashes, retryBackoff, lastError>>
         ]_vars

\* A call was turned away while another one was downloading.
C1_Witness ==
    \E p, q \in Syncers :
        /\ p # q
        /\ result[p] = "AlreadyInProgress"
        /\ pc[q] = "download"
        /\ dlAttempts[q] > 0

\* C2: when a Sync whose fetch succeeded and in which no delete and no
\* download failed returns, no eligible file is left for a hash that was
\* local but not remote, every hash that was remote but not local has a file,
\* and nothing was downloaded when every remote hash was local.  (Stated for
\* calls whose download requests were all answered with the photo, in runs in
\* which no other program removed a file.)
C2_Reconciled ==
    \A p \in Syncers :
        (AtReturn(p) /\ ~itemFailed[p] /\ ~dlNotFound[p] /\ extRemovals = 0) =>
            /\ \A h \in localHashes \ RemoteHashes(remotePhotos[p]) :
                  EligibleFiles(localDir, h) = {}
            /\ \A h \in RemoteHashes(remotePhotos[p]) \ localHashes :
                  FilesOf(localDir, h) # {}
            /\ (RemoteHashes(remotePhotos[p]) \subseteq localHashes
                  => dlAttempts[p] = 0)

\* C3: no step of Sync's loops removes or rewrites an eligible file whose hash
\* is in both the local and the remote inventory.  (Stated for the steps in
\* which neither the transport nor the file system fails.)
C3_SharedUntouched ==
    [][\A p \in Syncers :
         ( /\ pc[p] \in {"delete", "download"}
           /\ extRemovals' = extRemovals
           /\ itemFailed' = itemFailed
           /\ dlNotFound' = dlNotFound )
         => \A n \in DOMAIN localDir :
              ( /\ Eligible(n)
                /\ hashFile(localDir[n]) \in localHashes
                /\ hashFile(localDir[n]) \in RemoteHashes(remotePhotos[p]) )
              => (n \in DOMAIN localDir' /\ localDir'[n] = localDir[n])
      ]_vars

\* The deletion candidates the delete loop has not visited yet.
Unprocessed(p) == { h \in delRemaining[p] : ~FoundRemote(p, h) }

\* C4: once a call has attempted a download it is in its download loop and
\* none of its deletion candidates is unprocessed.
C4_DeleteBeforeDownload ==
    \A p \in Syncers :
        dlAttempts[p] > 0 => (pc[p] = "download" /\ Unprocessed(p) = {})

\* A call that attempted a deletion and then a download.
C4_Witness ==
    \E p \in Syncers : delAttempts[p] > 0 /\ dlAttempts[p] > 0

\* C5: the delay starts at the base; after k connection failures in a row it
\* is min(base * 2^k, cap), each failed fetch setting it to min(2 * delay,
\* cap) and each answered fetch back to the base; it stays within
\* [base, cap].
C5_Backoff ==
    /\ retryBackoff = BaseBackoff
    /\ [](/\ BaseBackoff <= retryBackoff
          /\ retryBackoff <= MaxBackoff
          /\ retryBackoff = Min(BaseBackoff * 2^connFails, MaxBackoff))
    /\ [][\A p \in Syncers :
            (pc[p] = "fetch" /\ pc'[p] # "fetch") =>
                IF result'[p] = "ConnectionFailure"
                THEN retryBackoff' = Min(2 * retryBackoff, MaxBackoff)
                ELSE retryBackoff' = BaseBackoff
         ]_vars

\* The delay has reached the cap, after six failures in a row.
C5_Witness == retryBackoff = MaxBackoff /\ connFails >= 6

\* C6: a Sync that ends in a decode failure leaves the delay as it was when
\* the call was made, and the directory unchanged.
C6_DecodeKeepsBackoff ==
    [][\A p \in Syncers :
         (pc[p] = "fetch" /\ pc'[p] = "idle" /\ result'[p] = "DecodeFailure")
         => (retryBackoff' = backoffAtCall[p] /\ localDir' = localDir)
      ]_vars

\* C7: a Sync whose fetch fails records the error and returns it at once: it
\* has attempted and attempts no delete or download, leaves the directory and
\* the local inventory unchanged and does not invoke the callback.
C7_FailureNoPartialWork ==
    [][\A p \in Syncers :
         (pc[p] = "fetch" /\ connFails' = connFails + 1)
         => /\ lastError' = "server connection failed"
            /\ pc'[p] = "idle"
            /\ result'[p] = "ConnectionFailure"
            /\ delAttempts[p] = 0 /\ dlAttempts[p] = 0
            /\ ~calledBack'[p]
            /\ UNCHANGED <<localDir, localHashes>>
      ]_vars

\* A call has returned a connection failure from a directory with photos, of
\* which an earlier call had recorded some.
C7_Witness ==
    \E p \in Syncers :
        /\ pc[p] = "idle"
        /\ result[p] = "ConnectionFailure"
        /\ lastError = "server connection failed"
        /\ localHashes # {}
        /\ DOMAIN localDir # {}

\* C8: Sync invokes the callback exactly when one of its deletions really
\* removed a file or one of its downloads really wrote the photo.  (Stated
\* for calls whose download requests were all answered with the photo.)
C8_CallbackIffChange ==
    [][\A p \in Syncers :
         (AtReturn(p) /\ ~dlNotFound[p] /\ pc'[p] = "idle")
         => (calledBack'[p] <=> realChange[p])
      ]_vars

\* The local hashes the remote inventory lacks: what the delete loop is to
\* delete.
DeleteCandidates(p) == localHashes \ RemoteHashes(remotePhotos[p])

\* The positions of the remote inventory whose hash is not a local hash: what
\* the download loop is to download.
DownloadCandidates(p) ==
    { i \in 1..Len(remotePhotos[p]) : remotePhotos[p][i].Hash \notin localHashes }

\* C19: a delete or download that fails does not end the call: when the
\* loops are over the call has attempted every deletion candidate and every
\* download candidate, whichever of them failed, and it returns no error.
C19_ContinueOnError ==
    /\ [](\A p \in Syncers :
            AtReturn(p)
            => /\ delAttempts[p] = Cardinality(DeleteCandidates(p))
               /\ dlAttempts[p] = Cardinality(DownloadCandidates(p)))
    /\ [][\A p \in Syncers :
            /\ (itemFailed'[p] /\ ~itemFailed[p]) => pc'[p] = pc[p]
            /\ (AtReturn(p) /\ pc'[p] = "idle") => result'[p] = "ok"
         ]_vars

\* A call is about to return after a delete that failed and, after it, a
\* download that failed: both were attempted.
C19_Witness ==
    \E p \in Syncers :
        /\ AtReturn(p)
        /\ itemFailed[p]
        /\ deleteCount[p] < delAttempts[p]
        /\ downloadCount[p] < dlAttempts[p]

\* The hashes of the records recs.
HashesOf(recs) == { r.Hash : r \in recs }

\* The eligible local files hash to exactly the advertised hashes.
Converged == loadLocalHashes(localDir) = HashesOf(advertised)

\* C22: against an inventory that stays as it is and with no failure, the
\* Sync cycles reach a state from which the local hashes equal the remote
\* hashes for good; and a Sync that finds the local hashes equal to the
\* remote hashes deletes nothing, downloads nothing and does not invoke the
\* callback.
C22_Converges ==
    /\ <>[]Converged
    /\ [][\A p \in Syncers :
            ( /\ AtReturn(p)
              /\ localHashes = RemoteHashes(remotePhotos[p])
              /\ pc'[p] = "idle" )
            => /\ deleteCount[p] = 0
               /\ downloadCount[p] = 0
               /\ ~calledBack'[p]
               /\ localDir' = localDir
         ]_vars

\* C23: every download that Sync counts as successful leaves a local file
\* under the record's filename whose content hashes to the advertised hash,
\* also when the store answers the request with not-found.
C23_CountedDownloadMatches ==
    [][\A p \in Syncers :
          ( /\ pc[p] = "download"
            /\ downloadCount'[p] = downloadCount[p] + 1 )
          => LET remote == remotePhotos[p][dlIdx[p]] IN
             /\ remote.Filename \in DOMAIN localDir'
             /\ hashFile(localDir'[remote.Filename]) = remote.Hash
      ]_vars

\* ---------------------------------------------- properties of PhotoStorage
\* The server serves and no call is in progress.
Quiescent ==
    /\ phase = "serving"
    /\ mu = "free"
    /\ \A t \in Workers : wpc[t] = "idle"

\* The files of the base directory a scan would index.
ValidFiles == { n \in DOMAIN storeDir : Eligible(n) /\ n \notin TmpNames }

\* C9: between calls, for every hash an Add has returned for which Get
\* succeeds, the path Get returns names a file of the base directory whose
\* content hashes to that hash.  (Stated for runs whose calls came one after
\* the other.)
C9_RoundTrip ==
    (Quiescent /\ ~overlapped)
    => \A h \in added :
          Get(h).ok
          => /\ Get(h).path \in DOMAIN storeDir
             /\ hashFile(storeDir[Get(h).path].bytes) = h

\* C10: between calls the index reflects the valid files of the base
\* directory: the file of every indexed record exists, and the content of
\* every valid file is indexed under its hash.
C10_IndexExact ==
    Quiescent
    => /\ \A h \in DOMAIN photos : photos[h].Filename \in DOMAIN storeDir
       /\ \A n \in ValidFiles : hashFile(storeDir[n].bytes) \in DOMAIN photos

\* C11: when an Add of content that an earlier Add stored under another
\* filename succeeds, and the earlier record is still indexed, List returns
\* both records afterwards: the earlier one and the one of this filename.
C11_TwoRecords ==
    [][\A t \in Workers :
         LET h == hashFile(Content(wdata[t])) IN
         ( /\ AddIndex(t)
           /\ ~overlapped
           /\ h \in added
           /\ h \in DOMAIN photos
           /\ photos[h].Filename # wname[t] )
         => {photos[h], [Hash |-> h, Filename |-> wname[t]]} \subseteq List'
      ]_vars

\* C12: in every state, every file present under a final name holds the
\* complete byte stream of one photo, whatever Adds are in progress.
C12_NoPartialFile ==
    \A n \in UploadNames \cap DOMAIN storeDir :
        \E d \in Data : storeDir[n].bytes = Content(d)

\* C13: a Delete of an indexed hash whose file is there and removable
\* returns success with the file and the index entry gone; a Delete of a hash
\* that a Delete removed, no Add having indexed it since, returns NotFound
\* and changes neither the directory nor the index.
C13_DeleteTwice ==
    [][\A t \in Workers :
         /\ ( /\ wpc[t] = "remove"
              /\ photos[whash[t]].Filename \in DOMAIN storeDir
              /\ DeleteRemove(t, TRUE) )
            => /\ wres' = "ok"
               /\ photos[whash[t]].Filename \notin DOMAIN storeDir'
               /\ whash[t] \notin DOMAIN photos'
         /\ \A h \in deleted :
              DeleteLock(t, h)
              => /\ wres' = "NotFound"
                 /\ wpc'[t] = "idle"
                 /\ UNCHANGED <<storeDir, photos, mu>>
      ]_vars

\* Every photo of the directory has been deleted, and the call that
\* returned last, a Delete of one of them again, returned NotFound.
C13_Witness ==
    /\ Quiescent
    /\ wres = "NotFound"
    /\ PhotoHashes \subseteq deleted
    /\ DOMAIN photos = {}

\* C14: when Delete has found the hash in the index and the removal of the
\* file fails, because the file is gone or cannot be removed, Delete returns
\* an error and leaves the index, the entry of the hash included, and the
\* directory as they were.
C14_FailedRemoveKeepsEntry ==
    [][\A t \in Workers :
         ( /\ wpc[t] = "remove"
           /\ \/ DeleteRemove(t, FALSE)
              \/ /\ photos[whash[t]].Filename \notin DOMAIN storeDir
                 /\ DeleteRemove(t, TRUE) )
         => /\ wres' = "DeleteError"
            /\ whash[t] \in DOMAIN photos'
            /\ UNCHANGED <<photos, storeDir>>
      ]_vars

\* The call that returned last is a Delete whose removal failed; the index
\* is as that call left it and holds a record.
C14_Witness ==
    /\ Quiescent
    /\ wres = "DeleteError"
    /\ DOMAIN photos # {}

\* C15: no index entry ever names a temporary upload file tmp-<filename>,
\* also after the scan of a base directory in which an interrupted upload
\* left its temporary file.
C15_NoTmpRecord ==
    \A h \in DOMAIN photos : photos[h].Filename \notin TmpNames

\* The holder of the write lock does file I/O in this step: the scan hashes
\* a file and indexes it, or Delete removes a file.
HolderDoesIO ==
    \/ mu = "init" /\ photos' # photos
    \/ \E t \in Workers :
          wpc[t] = "remove" /\ wpc'[t] = "idle" /\ storeDir' # storeDir

\* C20: no step of a thread that holds the write lock of the index hashes,
\* reads, writes or removes a file.
C20_NoIOUnderLock == [][~HolderDoesIO]_vars

\* ------------------------------------------------------ properties of Game
\* The workers of load i that have acquired a slot and not released it.
Holding(i) == { n \in DOMAIN lw[i] : lw[i][n] = "holding" }

\* C16: in every state, the workers of one load that hold an admission slot
\* are at most 4, however many eligible files the directory holds.
C16_AtMostFourLoads ==
    \A i \in Loads :
        /\ Cardinality(Holding(i)) <= MaxConcurrent
        /\ Cardinality(Holding(i)) = sem[i]

\* Of a load of more than 4 eligible files, 4 workers hold a slot and another
\* waits at the gate.
C16_Witness ==
    \E i \in Loads :
        /\ Cardinality(DOMAIN lw[i]) > MaxConcurrent
        /\ Cardinality(Holding(i)) = MaxConcurrent
        /\ \E n \in DOMAIN lw[i] : lw[i][n] = "waiting"

\* The paths the entries of the working set were loaded from.
Paths(imgs) == { imgs[k].path : k \in 1..Len(imgs) }

\* C17: when a worker adds the image of a path of which the working set
\* already holds an entry, the working set stays as it is.
C17_AddIdempotent ==
    [][\A i \in Loads, n \in ReloadNames :
         (Finish(i, n, TRUE) /\ n \in Paths(images)) => images' = images
      ]_vars

\* C18: in every state no two entries of the working set come from the same
\* path.
C18_UniquePaths ==
    \A j, k \in 1..Len(images) :
        j # k => images[j].path # images[k].path

\* Every worker of load i has returned.
LoadComplete(i) == \A n \in DOMAIN lw[i] : lw[i][n] = "done"

\* C21: under fair scheduling a load runs to completion: main starts it,
\* every worker, at the gate or holding a slot, eventually returns, and from
\* some state on all have returned with every slot released.  A worker whose
\* file fails to load releases its slot and adds nothing; a worker whose
\* file loads has its image in the working set when it returns.
C21_LoadCompletes ==
    /\ <>[](gpc = "idle" /\ \A i \in Loads : LoadComplete(i) /\ sem[i] = 0)
    /\ \A i \in Loads, n \in GameNames :
          (n \in DOMAIN lw[i] /\ lw[i][n] # "done")
          ~> (n \in DOMAIN lw[i] /\ lw[i][n] = "done")
    /\ [][\A i \in Loads, n \in GameNames :
            /\ Finish(i, n, FALSE)
               => (sem'[i] = sem[i] - 1 /\ images' = images
                   /\ lw'[i][n] = "done")
            /\ Finish(i, n, TRUE)
               => (sem'[i] = sem[i] - 1 /\ n \in Paths(images')
                   /\ lw'[i][n] = "done")
         ]_vars

\* A load of more than 4 eligible files is complete: some files failed to
\* load, the others are in the working set, and no slot is held.
C21_Witness ==
    \E i \in Loads :
        /\ Cardinality(DOMAIN lw[i]) > MaxConcurrent
        /\ LoadComplete(i)
        /\ sem[i] = 0
        /\ Len(images) > 0
        /\ Len(images) < Cardinality(DOMAIN lw[i])

\* C24: between the operations on the working set, in every interleaving of
\* nextPhoto, previousPhoto, AddImage, reloadPhotos and Draw, the cursor of a
\* working set that is not empty is an index of one of its entries, and no
\* Draw has read an entry out of range.
C24_CursorValid ==
    /\ (Len(images) > 0 /\ ~RLocked)
           => (0 <= currentIdx /\ currentIdx < Len(images))
    /\ drawn # "out of range"

\* After a reload the cursor stands on the last of several entries and Draw
\* has read an entry.
C24_Witness ==
    /\ loadNo = MaxLoads
    /\ prevPc = "out"
    /\ Len(images) > 1
    /\ currentIdx = Len(images) - 1
    /\ drawn = "entry"

============================================================================
